---------------------------- MODULE Spec2Model ----------------------------
(***************************************************************************)
(* Model of the waste-to-fuel components of prometheus-AI.                 *)
(*                                                                         *)
(*   WasteStreamSimulator  (src/unnamed/part_000)                          *)
(*   AIProcessOptimizer    (src/unnamed/part_001)                          *)
(*   SystemDashboard       (src/unnamed/part_002)                          *)
(*   PerformanceMonitor, MemoryManager, useDebounce, useOptimizedDebounce  *)
(*                         (src/src/utils/performance.js)                  *)
(*                                                                         *)
(* JavaScript numbers are modelled exactly: a finite number is a fraction  *)
(* num/den of integers (den > 0), next to the three non-finite values NaN, *)
(* Infinity and -Infinity.  number.toFixed(k) yields a decimal string; the *)
(* model keeps it as the integer count of 10^-k units it denotes, or as    *)
(* the non-finite token it spells ("NaN", "Infinity", "-Infinity").        *)
(* Binary rounding error of IEEE doubles (below 1e-12 for the magnitudes   *)
(* used here) is not modelled.                                             *)
(***************************************************************************)
EXTENDS Integers, Sequences, FiniteSets, TLC

VARIABLES
    \* ---- WasteStreamSimulator (part_000) ----
    wasteComposition,   \* useState: category -> percentage
    simulation,         \* useState: last published simulation result
    isSimulating,       \* useState
    flowAnimation,      \* useState
    simTimers,          \* pending 2 s timers, oldest first; each holds the
                        \* wasteComposition captured by its closure
    flowTimers,         \* number of pending 3 s setFlowAnimation(false) timers
    simInput,           \* history: <<composition>> the published result was
                        \* computed from (<<>> before the first result)
    simPrev,            \* history: <<[input, result]>> of the run before it
    edits,              \* history: number of handleWasteChange calls so far
    lastEdit,           \* history: <<[type, value]>> of the latest such call
    \* ---- AIProcessOptimizer (part_001) ----
    parameters,         \* useState: process parameters
    optimization,       \* useState: last published optimization result
    isOptimizing,       \* useState
    autoTimer,          \* pending 1 s auto-optimize timer: <<closure>> or <<>>
    optTimers,          \* pending 2 s completion timers, oldest first; each
                        \* holds the parameters captured by its closure
    optInput,           \* history: <<parameters>> of the published result
    optDraws,           \* history: the Math.random draws of that run
    optPrev,            \* history: <<[input, draws, result]>> of the run
                        \* before it
    paramEdits,         \* history: number of handleParameterChange calls
    \* ---- SystemDashboard (part_002) ----
    metrics,            \* useState: displayed metrics
    projections,        \* useState: year1..year3 projections
    maintenance,        \* useState: maintenance schedule
    alerts,             \* useState: current alerts
    dashInterval,       \* the 3 s setInterval is running
    passNow,            \* history: Date.now() read by the latest pass
    passRandom,         \* history: Math.random() drawn by the latest pass
    dashPrev,           \* history: <<PassRecord>> left by the pass before it
    \* ---- PerformanceMonitor (performance.js) ----
    renderTimes,        \* metrics.renderTimes
    memoryUsage,        \* metrics.memoryUsage
    voiceProcessingTimes, \* metrics.voiceProcessingTimes
    performanceMemory,  \* the browser provides performance.memory
    monitorCalls,       \* history: number of recordings made so far
    \* ---- MemoryManager (performance.js) ----
    cleanupTasks,       \* Set of tasks, in insertion order
    intervals,          \* Set of interval ids
    timeouts,           \* Set of timeout ids
    eventListeners,     \* Map: key -> [element, event, handler]
    invocations,        \* history: task -> number of times it was invoked
    liveIntervals,      \* interval ids the browser still runs
    liveTimeouts,       \* timeout ids the browser still holds
    attached,           \* listeners attached to the elements
    cleanups,           \* history: number of cleanup() calls
    \* ---- useDebounce (performance.js) ----
    inputValue,         \* the value argument of the latest render
    debouncedValue,     \* useState
    handlers,           \* pending timers: [value, remaining ticks]
    stableFor,          \* history: ticks since value last changed (capped)
    valueChanges,       \* history: number of changes of value
    \* ---- useOptimizedDebounce with maxWait (performance.js) ----
    optValue,           \* the value argument of the latest render
    optDebouncedValue,  \* useState
    optHandlers,        \* pending timers: [id, value, remaining ticks]
    timeoutRef,         \* timeoutRef.current: a timer id, or 0 for null
    maxTimeoutRef,      \* maxTimeoutRef.current: a timer id, or 0 for null
    nextTimerId,        \* the id the next setTimeout returns
    waitingFor,         \* history: ticks since the first change not yet
                        \* published (capped), -1 when none is outstanding
    optValueChanges     \* history: number of changes of optValue

simVars == <<wasteComposition, simulation, isSimulating, flowAnimation,
             simTimers, flowTimers, simInput, simPrev, edits, lastEdit>>
optVars == <<parameters, optimization, isOptimizing, autoTimer, optTimers,
             optInput, optDraws, optPrev, paramEdits>>
dashVars == <<metrics, projections, maintenance, alerts, dashInterval,
              passNow, passRandom, dashPrev>>
monitorVars == <<renderTimes, memoryUsage, voiceProcessingTimes,
                 performanceMemory, monitorCalls>>
managerVars == <<cleanupTasks, intervals, timeouts, eventListeners,
                 invocations, liveIntervals, liveTimeouts, attached, cleanups>>
debounceVars == <<inputValue, debouncedValue, handlers, stableFor, valueChanges>>
maxWaitVars == <<optValue, optDebouncedValue, optHandlers, timeoutRef,
                 maxTimeoutRef, nextTimerId, waitingFor, optValueChanges>>
componentVars == <<simVars, optVars, dashVars>>
utilityVars == <<monitorVars, managerVars, debounceVars, maxWaitVars>>
vars == <<componentVars, utilityVars>>

-----------------------------------------------------------------------------
(* Bounds of the model *)

\* at most this many simulation timers pending at once
MaxPending == 2
\* at most this many flow-animation timers pending at once
MaxFlowTimers == 2
\* at most this many handleWasteChange calls in a behaviour
MaxEdits == 2
\* at most this many optimizer completion timers pending at once
MaxOptPending == 2
\* at most this many handleParameterChange calls in a behaviour
MaxParamEdits == 2

\* at most this many entries recorded by the performance monitor in a behaviour
MaxMonitorCalls == 102

\* at most this many memoryManager.cleanup() calls in a behaviour
MaxCleanups == 2

\* the delay of useDebounce, in ticks of the clock
DebounceDelay == 2
\* at most this many changes of the debounced input in a behaviour
MaxValueChanges == 4
\* the delay and the maxWait of useOptimizedDebounce, in ticks of the clock
OptDelay == 2
MaxWait == 3
\* at most this many changes of the input of useOptimizedDebounce
MaxOptValueChanges == 4

-----------------------------------------------------------------------------
(* JavaScript numbers *)

Finite(n, d) == [kind |-> "finite", num |-> n, den |-> d]
NaN == [kind |-> "NaN", num |-> 0, den |-> 1]
PosInfinity == [kind |-> "Infinity", num |-> 0, den |-> 1]
NegInfinity == [kind |-> "-Infinity", num |-> 0, den |-> 1]

Abs(n) == IF n < 0 THEN -n ELSE n

\* n / d of two finite numbers (IEEE 754: x/0 is +-Infinity, 0/0 is NaN)
Divide(n, d) ==
    IF d = 0
    THEN IF n = 0 THEN NaN ELSE IF n > 0 THEN PosInfinity ELSE NegInfinity
    ELSE IF d < 0 THEN Finite(-n, -d) ELSE Finite(n, d)

\* x * (a / b) for positive integers a, b
Times(x, a, b) ==
    IF x.kind = "finite" THEN Finite(x.num * a, x.den * b) ELSE x

\* x > c for an integer c >= 0 (every comparison with NaN is false)
GreaterThan(x, c) ==
    CASE x.kind = "NaN" -> FALSE
      [] x.kind = "Infinity" -> TRUE
      [] x.kind = "-Infinity" -> FALSE
      [] OTHER -> \/ x.num \div x.den > c
                  \/ x.num \div x.den = c /\ x.num % x.den > 0

\* x <= c for an integer c >= 0
AtMost(x, c) ==
    CASE x.kind = "NaN" -> FALSE
      [] x.kind = "Infinity" -> FALSE
      [] x.kind = "-Infinity" -> TRUE
      [] OTHER -> ~GreaterThan(x, c)

\* Math.min(c, x) for an integer c >= 0
MathMin(c, x) ==
    CASE x.kind = "NaN" -> NaN
      [] x.kind = "Infinity" -> Finite(c, 1)
      [] x.kind = "-Infinity" -> x
      [] OTHER -> IF GreaterThan(x, c) THEN Finite(c, 1) ELSE x

\* a toFixed result: v counts units of 1/scale; kind tells a non-finite text
Fixed(v) == [kind |-> "finite", v |-> v]

\* x.toFixed(k) with scale = 10^k, ties rounded away from zero.  On an exact
\* decimal tie (13.05 to one digit) the double nearest to x decides in
\* JavaScript; no formula below depends on the digit chosen at a tie.
ToFixed(x, scale) ==
    IF x.kind # "finite"
    THEN [kind |-> x.kind, v |-> 0]
    ELSE LET a == Abs(x.num)
             q == a \div x.den
             r == a % x.den
             m == q * scale + (2 * scale * r + x.den) \div (2 * x.den)
         IN  Fixed(IF x.num < 0 THEN -m ELSE m)

IsNumber(f) == f.kind = "finite"

-----------------------------------------------------------------------------
(* Text typed into an <input>, and parseFloat *)

\* what is typed into a waste percentage field
InputStrings == {"", "abc", "-5", "0", "100", "150"}

\* parseFloat(value): the leading decimal number of the text, else NaN
ParseFloat(value) ==
    CASE value = ""    -> NaN
      [] value = "abc" -> NaN
      [] value = "-5"  -> Finite(-5, 1)
      [] value = "0"   -> Finite(0, 1)
      [] value = "3"   -> Finite(3, 1)
      [] value = "80"  -> Finite(80, 1)
      [] value = "100" -> Finite(100, 1)
      [] value = "150" -> Finite(150, 1)
      [] value = "1400" -> Finite(1400, 1)

\* x || 0 : NaN and 0 are falsy.  Only integers are typed, so the result is
\* returned as an integer.
OrZero(x) == IF x.kind = "NaN" \/ x.num = 0 THEN 0 ELSE x.num

Max(a, b) == IF a > b THEN a ELSE b
Min(a, b) == IF a < b THEN a ELSE b

-----------------------------------------------------------------------------
(* WasteStreamSimulator *)

\* key order of the wasteComposition object (Object.entries order)
CategoryOrder ==
    <<"polymers", "packaging", "structuralResidues", "organics", "metals">>
Categories == {CategoryOrder[i] : i \in 1..Len(CategoryOrder)}

InitialComposition ==
    [polymers |-> 35, packaging |-> 25, structuralResidues |-> 20,
     organics |-> 15, metals |-> 5]

InitialSimulation ==
    [energyNeeds |-> Fixed(0), methaneOutput |-> Fixed(0),
     carbonProduction |-> Fixed(0), hydrogenOutput |-> Fixed(0),
     sustainabilityScore |-> Fixed(0), cycleEfficiency |-> Fixed(0)]

\* decompositionRates, in hundredths
decompositionRates ==
    [polymers |-> 85, packaging |-> 78, structuralResidues |-> 65,
     organics |-> 92, metals |-> 45]

\* energyRequirements (kWh per kg), in tenths
energyRequirements ==
    [polymers |-> 23, packaging |-> 18, structuralResidues |-> 31,
     organics |-> 12, metals |-> 45]

\* the accumulation with carbon taken from the waste mass instead of the
\* decomposed mass
RECURSIVE AccumulateCarbonOfMass(_, _, _)
AccumulateCarbonOfMass(composition, i, acc) ==
    IF i > Len(CategoryOrder) THEN acc
    ELSE LET type == CategoryOrder[i]
             wasteAmount == composition[type]
             decomposed == wasteAmount * decompositionRates[type]
         IN  AccumulateCarbonOfMass(composition, i + 1,
               [totalEnergyNeeds |->
                    acc.totalEnergyNeeds + wasteAmount * energyRequirements[type],
                totalMethaneOutput |-> acc.totalMethaneOutput + decomposed * 40,
                totalCarbonProduction |->
                    acc.totalCarbonProduction + wasteAmount * 100 * 30,
                totalHydrogenOutput |->
                    acc.totalHydrogenOutput + decomposed * 15])

\* the forEach accumulation over Object.entries(composition), entries i..5
\* (an entry the tables lack adds NaN: see DefinedFor).
\* Units: energy in 1/10 kWh, methane, carbon and hydrogen in 1/10000 kg.
RECURSIVE Accumulate(_, _, _)
Accumulate(composition, i, acc) ==
    IF i > Len(CategoryOrder) THEN acc
    ELSE LET type == CategoryOrder[i]
             wasteAmount == composition[type]        \* (percentage/100)*100
             decomposed == wasteAmount * decompositionRates[type]  \* 1/100
         IN  Accumulate(composition, i + 1,
               [totalEnergyNeeds |->
                    acc.totalEnergyNeeds + wasteAmount * energyRequirements[type],
                totalMethaneOutput |-> acc.totalMethaneOutput + decomposed * 40,
                totalCarbonProduction |->
                    acc.totalCarbonProduction + decomposed * 30,
                totalHydrogenOutput |->
                    acc.totalHydrogenOutput + decomposed * 15])

Totals(composition) ==
    Accumulate(composition, 1,
               [totalEnergyNeeds |-> 0, totalMethaneOutput |-> 0,
                totalCarbonProduction |-> 0, totalHydrogenOutput |-> 0])

\* a category the composition may be configured with that the two tables
\* have no entry for
UnknownCategory == "ceramics"

\* table[type] is defined for every type of the composition.  For a type the
\* table lacks it is undefined, wasteAmount * undefined is NaN, and a total
\* that NaN was added to is NaN whatever the other entries add.
DefinedFor(table, composition) == DOMAIN composition \subseteq DOMAIN table

\* an accumulated total as a number: units of 1/den, or NaN
Total(units, den, table, composition) ==
    IF DefinedFor(table, composition) THEN Finite(units, den) ELSE NaN

\* (totalMethaneOutput * 50 + totalHydrogenOutput * 120) / totalEnergyNeeds
CycleEfficiency(composition) ==
    LET t == Totals(composition)
    IN  IF /\ DefinedFor(decompositionRates, composition)
           /\ DefinedFor(energyRequirements, composition)
        THEN Divide(t.totalMethaneOutput * 50 + t.totalHydrogenOutput * 120,
                    1000 * t.totalEnergyNeeds)
        ELSE NaN

\* Math.min(100, cycleEfficiency * 1.2)
SustainabilityScore(composition) ==
    MathMin(100, Times(CycleEfficiency(composition), 6, 5))

\* the object handed to setSimulation by the timer callback
SimulationResult(composition) ==
    LET t == Totals(composition)
        rates == decompositionRates
    IN  [energyNeeds |->
             ToFixed(Total(t.totalEnergyNeeds, 10, energyRequirements,
                           composition), 10),
         methaneOutput |->
             ToFixed(Total(t.totalMethaneOutput, 10000, rates, composition),
                     10),
         carbonProduction |->
             ToFixed(Total(t.totalCarbonProduction, 10000, rates,
                           composition), 10),
         hydrogenOutput |->
             ToFixed(Total(t.totalHydrogenOutput, 10000, rates, composition),
                     10),
         sustainabilityScore |-> ToFixed(SustainabilityScore(composition), 1),
         cycleEfficiency |-> ToFixed(CycleEfficiency(composition), 10)]

\* Object.values(wasteComposition).reduce((sum, val) => sum + val, 0)
RECURSIVE SumFrom(_, _)
SumFrom(composition, i) ==
    IF i > Len(CategoryOrder)
    THEN IF UnknownCategory \in DOMAIN composition
         THEN composition[UnknownCategory]
         ELSE 0
    ELSE composition[CategoryOrder[i]] + SumFrom(composition, i + 1)
totalPercentage == SumFrom(wasteComposition, 1)

\* the '(Exceeds 100%)' indication of the rendered total
ExceedsIndication == totalPercentage > 100

\* the clamp left out: parseFloat(value) || 0
ClampedPercentageUnclamped(value) == OrZero(ParseFloat(value))

\* Math.max(0, Math.min(100, parseFloat(value) || 0))
ClampedPercentage(value) == Max(0, Min(100, OrZero(ParseFloat(value))))

\* runSimulation: raise both flags and start the 2 s timer, whose closure
\* holds the composition of the render that created the callback
RunSimulation(composition) ==
    /\ isSimulating' = TRUE
    /\ flowAnimation' = TRUE
    /\ simTimers' = Append(simTimers, composition)

\* handleWasteChange refusing an entry that would take the total above 100
HandleWasteChangeRejecting(type, value) ==
    /\ edits < MaxEdits
    /\ Len(simTimers) < MaxPending
    /\ LET entered ==
               [wasteComposition EXCEPT ![type] = ClampedPercentage(value)]
       IN  wasteComposition' =
               IF SumFrom(entered, 1) > 100 THEN wasteComposition ELSE entered
    /\ RunSimulation(wasteComposition')
    /\ edits' = edits + 1
    /\ lastEdit' = <<[type |-> type, value |-> value]>>
    /\ UNCHANGED <<simulation, flowTimers, simInput, simPrev>>
    /\ UNCHANGED <<optVars, dashVars, utilityVars>>

\* handleWasteChange(type, value), the re-render and the effect that follows
\* the change of wasteComposition
HandleWasteChange(type, value) ==
    /\ edits < MaxEdits
    /\ Len(simTimers) < MaxPending
    /\ wasteComposition' =
           [wasteComposition EXCEPT ![type] = ClampedPercentage(value)]
    /\ RunSimulation(wasteComposition')
    /\ edits' = edits + 1
    /\ lastEdit' = <<[type |-> type, value |-> value]>>
    /\ UNCHANGED <<simulation, flowTimers, simInput, simPrev>>
    /\ UNCHANGED <<optVars, dashVars, utilityVars>>

\* click on SimulateButton (disabled while isSimulating)
ClickSimulate ==
    /\ ~isSimulating
    /\ Len(simTimers) < MaxPending
    /\ RunSimulation(wasteComposition)
    /\ UNCHANGED <<wasteComposition, simulation, flowTimers, simInput, simPrev,
                   edits, lastEdit>>
    /\ UNCHANGED <<optVars, dashVars, utilityVars>>

\* the timers firing newest first instead of in the order they were started
SimulationTimerFiresNewestFirst ==
    /\ simTimers # <<>>
    /\ flowTimers < MaxFlowTimers
    /\ LET composition == simTimers[Len(simTimers)]
       IN  /\ simulation' = SimulationResult(composition)
           /\ simInput' = <<composition>>
    /\ simPrev' = IF simInput = <<>> THEN <<>>
                  ELSE <<[input |-> simInput[1], result |-> simulation]>>
    /\ isSimulating' = FALSE
    /\ simTimers' = SubSeq(simTimers, 1, Len(simTimers) - 1)
    /\ flowTimers' = flowTimers + 1
    /\ UNCHANGED <<wasteComposition, flowAnimation, edits, lastEdit>>
    /\ UNCHANGED <<optVars, dashVars, utilityVars>>

\* the callback computing from the composition the component holds when the
\* timer fires instead of the one its closure captured
SimulationTimerFiresOnCurrentState ==
    /\ simTimers # <<>>
    /\ flowTimers < MaxFlowTimers
    /\ simulation' = SimulationResult(wasteComposition)
    /\ simInput' = <<Head(simTimers)>>
    /\ simPrev' = IF simInput = <<>> THEN <<>>
                  ELSE <<[input |-> simInput[1], result |-> simulation]>>
    /\ isSimulating' = FALSE
    /\ simTimers' = Tail(simTimers)
    /\ flowTimers' = flowTimers + 1
    /\ UNCHANGED <<wasteComposition, flowAnimation, edits, lastEdit>>
    /\ UNCHANGED <<optVars, dashVars, utilityVars>>

\* the oldest 2 s timer fires: compute, publish, schedule the 3 s timer
\* (timers of equal delay fire in the order they were started)
SimulationTimerFires ==
    /\ simTimers # <<>>
    /\ flowTimers < MaxFlowTimers
    /\ LET composition == Head(simTimers)
       IN  /\ simulation' = SimulationResult(composition)
           /\ simInput' = <<composition>>
    /\ simPrev' = IF simInput = <<>> THEN <<>>
                  ELSE <<[input |-> simInput[1], result |-> simulation]>>
    /\ isSimulating' = FALSE
    /\ simTimers' = Tail(simTimers)
    /\ flowTimers' = flowTimers + 1
    /\ UNCHANGED <<wasteComposition, flowAnimation, edits, lastEdit>>
    /\ UNCHANGED <<optVars, dashVars, utilityVars>>

\* a 3 s timer fires: setFlowAnimation(false)
FlowTimerFires ==
    /\ flowTimers > 0
    /\ flowAnimation' = FALSE
    /\ flowTimers' = flowTimers - 1
    /\ UNCHANGED <<wasteComposition, simulation, isSimulating, simTimers,
                   simInput, simPrev, edits, lastEdit>>
    /\ UNCHANGED <<optVars, dashVars, utilityVars>>

-----------------------------------------------------------------------------
(* AIProcessOptimizer *)

ParameterNames ==
    {"temperature", "flowRate", "catalystEfficiency", "energyInput", "pressure"}

\* pressure is held in tenths of an atmosphere, the other four in units
InitialParameters ==
    [temperature |-> 1200, flowRate |-> 85, catalystEfficiency |-> 92,
     energyInput |-> 150, pressure |-> 25]

HighTempWarning ==
    "WARNING: High temperature detected. Catalyst fouling likely in 12-15 hours."
LowCatalystAlert ==
    "ALERT: Catalyst efficiency below optimal. Recommend maintenance cycle."
Optimal ==
    "OPTIMAL: System operating at peak efficiency. Methane production maximized."
Suboptimal ==
    "SUBOPTIMAL: Adjusting parameters for improved yield. Efficiency can be increased by 15%."
Predictions == {HighTempWarning, LowCatalystAlert, Optimal, Suboptimal}

InitialOptimization ==
    [methaneYield |-> Fixed(0), powerConsumption |-> Fixed(0),
     efficiency |-> Fixed(0), prediction |-> "", status |-> "Standby"]

\* Math.random() draws, in halves: 0 stands for 0.0 and 1 for 0.5
RandomDraws == {0, 1}

\* (temperature / 1200) * (flowRate / 100) * (catalystEfficiency / 100) * 85
\*   = temperature * flowRate * catalystEfficiency * 17 / 2400000
MethaneYield(p) ==
    Finite(p.temperature * p.flowRate * p.catalystEfficiency * 17, 2400000)

\* the power taken to grow with the pressure, relative to 2.5 bar
PowerConsumptionUnderPressure(p) ==
    Finite(p.energyInput * (1000 - 3 * p.catalystEfficiency) * p.pressure,
           25000)

\* the catalyst saving left out: energyInput alone
PowerConsumptionNoSaving(p) == Finite(p.energyInput * 1000, 1000)

\* energyInput * (1 - (catalystEfficiency / 100) * 0.3)
\*   = energyInput * (1000 - 3 * catalystEfficiency) / 1000
PowerConsumption(p) ==
    Finite(p.energyInput * (1000 - 3 * p.catalystEfficiency), 1000)

\* (methaneYield / powerConsumption) * 100
\*   = (m / 2400000) / (w / 1000) * 100 = m / (24 * w)
Efficiency(p) ==
    Divide(MethaneYield(p).num, 24 * PowerConsumption(p).num)

\* the chain with its first two rules in the other order
PredictionCatalystFirst(p) ==
    IF p.catalystEfficiency < 85 THEN LowCatalystAlert
    ELSE IF p.temperature > 1300 THEN HighTempWarning
    ELSE IF GreaterThan(Efficiency(p), 75) THEN Optimal
    ELSE Suboptimal

\* the if / else-if chain of runOptimization
Prediction(p) ==
    IF p.temperature > 1300 THEN HighTempWarning
    ELSE IF p.catalystEfficiency < 85 THEN LowCatalystAlert
    ELSE IF GreaterThan(Efficiency(p), 75) THEN Optimal
    ELSE Suboptimal

\* the result computed from the drawn target temperature instead of the
\* temperature parameter
OptimizationResultFromTargets(p, draws) ==
    LET tempOptimal == 1150 + draws[1] * 50
        q == [p EXCEPT !.temperature = tempOptimal]
    IN  [methaneYield |-> ToFixed(MethaneYield(q), 100),
         powerConsumption |-> ToFixed(PowerConsumption(q), 10),
         efficiency |-> ToFixed(Efficiency(q), 10),
         prediction |-> Prediction(q),
         status |-> "Optimization Complete"]

\* the object handed to setOptimization by the timer callback; draws are the
\* three Math.random() values of the callback
OptimizationResult(p, draws) ==
    LET tempOptimal == 1150 + draws[1] * 50
        flowOptimal == 80 + draws[2] * 10
        catalystOptimal == 88 + draws[3] * 6
    IN  [methaneYield |-> ToFixed(MethaneYield(p), 100),
         powerConsumption |-> ToFixed(PowerConsumption(p), 10),
         efficiency |-> ToFixed(Efficiency(p), 10),
         prediction |-> Prediction(p),
         status |-> "Optimization Complete"]

\* what may be typed into the field of a parameter
ParameterInputs(param) ==
    CASE param = "temperature" -> {"", "1400"}
      [] param = "flowRate" -> {"abc", "0"}
      [] param = "catalystEfficiency" -> {"", "80"}
      [] param = "energyInput" -> {"", "-5"}
      [] param = "pressure" -> {"abc", "3"}

\* parseFloat(value) || 0, in the unit the parameter is held in
ParameterValue(param, value) ==
    IF param = "pressure" THEN 10 * OrZero(ParseFloat(value))
    ELSE OrZero(ParseFloat(value))

\* the closure of the auto-optimize effect's timer
Closure(optimizing, p) == [isOptimizing |-> optimizing, parameters |-> p]

\* runOptimization of the render whose parameters are p
RunOptimization(p) ==
    /\ Len(optTimers) < MaxOptPending
    /\ isOptimizing' = TRUE
    /\ optimization' =
           [optimization EXCEPT !.status = "Analyzing plasma parameters..."]
    /\ optTimers' = Append(optTimers, p)

\* handleParameterChange(param, value); parameters changes, so the effect is
\* cleaned up (clearTimeout) and run again (a new 1 s timer)
HandleParameterChange(param, value) ==
    /\ paramEdits < MaxParamEdits
    /\ parameters' =
           [parameters EXCEPT ![param] = ParameterValue(param, value)]
    /\ autoTimer' = <<Closure(isOptimizing, parameters')>>
    /\ paramEdits' = paramEdits + 1
    /\ UNCHANGED <<optimization, isOptimizing, optTimers, optInput, optDraws,
                   optPrev>>
    /\ UNCHANGED <<simVars, dashVars, utilityVars>>

\* the 1 s timer starting a run without looking at isOptimizing
AutoTimerFiresUnguarded ==
    /\ autoTimer # <<>>
    /\ RunOptimization(autoTimer[1].parameters)
    /\ autoTimer' = IF isOptimizing' # isOptimizing
                    THEN <<Closure(isOptimizing', parameters)>>
                    ELSE <<>>
    /\ UNCHANGED <<parameters, optInput, optDraws, optPrev, paramEdits>>
    /\ UNCHANGED <<simVars, dashVars, utilityVars>>

\* the 1 s timer fires: if (!isOptimizing) runOptimization(), both read from
\* the closure; a change of isOptimizing runs the effect again
AutoTimerFires ==
    /\ autoTimer # <<>>
    /\ LET c == autoTimer[1]
       IN  IF ~c.isOptimizing
           THEN /\ RunOptimization(c.parameters)
                /\ autoTimer' = IF isOptimizing' # isOptimizing
                                THEN <<Closure(isOptimizing', parameters)>>
                                ELSE <<>>
           ELSE /\ autoTimer' = <<>>
                /\ UNCHANGED <<optimization, isOptimizing, optTimers>>
    /\ UNCHANGED <<parameters, optInput, optDraws, optPrev, paramEdits>>
    /\ UNCHANGED <<simVars, dashVars, utilityVars>>

\* click on OptimizeButton (disabled while isOptimizing)
ClickOptimize ==
    /\ ~isOptimizing
    /\ RunOptimization(parameters)
    /\ autoTimer' = <<Closure(isOptimizing', parameters)>>
    /\ UNCHANGED <<parameters, optInput, optDraws, optPrev, paramEdits>>
    /\ UNCHANGED <<simVars, dashVars, utilityVars>>

\* the oldest 2 s timer fires: draw, compute, publish, clear the flag
OptimizationTimerFires ==
    /\ optTimers # <<>>
    /\ \E r1 \in RandomDraws, r2 \in RandomDraws, r3 \in RandomDraws :
         /\ optimization' = OptimizationResult(Head(optTimers), <<r1, r2, r3>>)
         /\ optDraws' = <<r1, r2, r3>>
    /\ optInput' = <<Head(optTimers)>>
    /\ optPrev' = IF optInput = <<>> THEN <<>>
                  ELSE <<[input |-> optInput[1], draws |-> optDraws,
                          result |-> optimization]>>
    /\ isOptimizing' = FALSE
    /\ optTimers' = Tail(optTimers)
    /\ autoTimer' = IF isOptimizing
                    THEN <<Closure(FALSE, parameters)>>
                    ELSE autoTimer
    /\ UNCHANGED <<parameters, paramEdits>>
    /\ UNCHANGED <<simVars, dashVars, utilityVars>>

-----------------------------------------------------------------------------
(* SystemDashboard (part_002) *)

\* Date.now() at a pass of updateMetrics, in milliseconds after
\* 2026-01-01T00:00:00Z (Date.now() = 1767225600000)
NowSamples ==
    {0, 3000, 50090, 51000, 54000, 57000, 66000, 69000, 126000, 144000,
     171000}

\* Math.sin(now / 10000), Math.sin(now / 8000), Math.sin(now / 12000) and
\* Math.sin(now / 15000) at these instants, in hundredths
SineTable ==
    [now \in NowSamples |->
        CASE now = 0      -> <<-13, 99, 11, -8>>
          [] now = 3000   -> <<17, 98, -14, 12>>
          [] now = 50090  -> <<-99, 98, 80, -11>>
          [] now = 51000  -> <<-97, 100, 84, -17>>
          [] now = 54000  -> <<-85, 95, 95, -37>>
          [] now = 57000  -> <<-65, 78, 100, -54>>
          [] now = 66000  -> <<19, -24, 78, -92>>
          [] now = 69000  -> <<47, -58, 60, -98>>
          [] now = 126000 -> <<-9, -99, 82, 90>>
          [] now = 144000 -> <<99, 53, 62, -9>>
          [] now = 171000 -> <<-95, -71, -100, -95>>]

\* Math.sin(now / divisor), in hundredths
MathSin(now, divisor) ==
    CASE divisor = 10000 -> SineTable[now][1]
      [] divisor = 8000  -> SineTable[now][2]
      [] divisor = 12000 -> SineTable[now][3]
      [] divisor = 15000 -> SineTable[now][4]

\* Math.random() draws of a pass, in hundredths
DriftDraws == {50, 80, 90}

\* x < c for an integer c >= 0 (every comparison with NaN is false)
LessThan(x, c) ==
    CASE x.kind = "NaN" -> FALSE
      [] x.kind = "Infinity" -> FALSE
      [] x.kind = "-Infinity" -> TRUE
      [] OTHER -> x.num < c * x.den

\* 150 + Math.sin(now / 10000) * 20
BaseWaste(now) == Finite(15000 + 20 * MathSin(now, 10000), 100)
\* 85 + Math.sin(now / 8000) * 15
BaseMethane(now) == Finite(8500 + 15 * MathSin(now, 8000), 100)
\* 180 + Math.sin(now / 12000) * 25
BasePower(now) == Finite(18000 + 25 * MathSin(now, 12000), 100)
\* efficiency of updateMetrics: 75 + Math.sin(now / 15000) * 15
SystemEfficiency(now) == Finite(7500 + 15 * MathSin(now, 15000), 100)

\* the object handed to setMetrics
CurrentMetrics(now) ==
    [wasteProcessed |-> ToFixed(BaseWaste(now), 10),
     methaneStored |-> ToFixed(BaseMethane(now), 10),
     powerUsed |-> ToFixed(BasePower(now), 10),
     co2Offset |-> ToFixed(Times(BaseWaste(now), 23, 10), 10),
     systemEfficiency |-> ToFixed(SystemEfficiency(now), 10),
     uptime |-> Finite(987, 10)]

\* Mars mission crew
crewSize == 6

\* the factor taken per crew member of the mission instead of per 4
ScalingFactorPerMissionCrew(crew) == Finite(crew, 6)

\* crew / 4
ScalingFactor(crew) == Finite(crew, 4)

\* the later periods left at the period-1 figure: the growth a / b dropped
AnnualizedWithoutGrowth(base, crew, a, b) ==
    Finite(base.num * 365 * ScalingFactor(crew).num,
           base.den * ScalingFactor(crew).den * 1000)

\* base * 365 * scalingFactor * (a / b) / 1000, scalingFactor = crew / 4
Annualized(base, crew, a, b) ==
    Finite(base.num * 365 * ScalingFactor(crew).num * a,
           base.den * ScalingFactor(crew).den * b * 1000)

PeriodNames == <<"year1", "year2", "year3">>

\* the object handed to setProjections, for a crew of the given size
CurrentProjections(now, crew) ==
    [year1 |->
        [waste |-> ToFixed(Annualized(BaseWaste(now), crew, 1, 1), 10),
         methane |-> ToFixed(Annualized(BaseMethane(now), crew, 1, 1), 10),
         power |-> ToFixed(Annualized(BasePower(now), crew, 1, 1), 10),
         efficiency |-> ToFixed(Times(SystemEfficiency(now), 19, 20), 10)],
     year2 |->
        [waste |-> ToFixed(Annualized(BaseWaste(now), crew, 11, 10), 10),
         methane |-> ToFixed(Annualized(BaseMethane(now), crew, 23, 20), 10),
         power |-> ToFixed(Annualized(BasePower(now), crew, 9, 10), 10),
         efficiency |-> ToFixed(Times(SystemEfficiency(now), 49, 50), 10)],
     year3 |->
        [waste |-> ToFixed(Annualized(BaseWaste(now), crew, 6, 5), 10),
         methane |-> ToFixed(Annualized(BaseMethane(now), crew, 5, 4), 10),
         power |-> ToFixed(Annualized(BasePower(now), crew, 17, 20), 10),
         efficiency |-> ToFixed(Times(SystemEfficiency(now), 51, 50), 10)]]

maintenanceItems ==
    <<[task |-> "Plasma chamber cleaning", timeRemaining |-> "18 days",
       priority |-> "medium", duration |-> "2 hours"],
      [task |-> "Catalyst replacement", timeRemaining |-> "45 days",
       priority |-> "high", duration |-> "4 hours"],
      [task |-> "Flow sensor calibration", timeRemaining |-> "8 days",
       priority |-> "low", duration |-> "1 hour"],
      [task |-> "Pressure vessel inspection", timeRemaining |-> "72 days",
       priority |-> "high", duration |-> "3 hours"]>>

EfficiencyAlert ==
    "System efficiency below optimal threshold. Check catalyst status."
PowerAlert ==
    "Power consumption elevated. Consider load balancing."
SensorDriftAlert ==
    "Predictive maintenance: Flow rate sensor drift detected."

\* the rules as an if / else-if chain: the first that matches wins
CurrentAlertsFirstMatch(efficiency, basePower, random) ==
    IF LessThan(efficiency, 70) THEN <<EfficiencyAlert>>
    ELSE IF GreaterThan(basePower, 200) THEN <<PowerAlert>>
    ELSE IF random > 80 THEN <<SensorDriftAlert>>
    ELSE <<>>

\* currentAlerts after the three if statements; random is the Math.random()
\* draw in hundredths
CurrentAlerts(efficiency, basePower, random) ==
    (IF LessThan(efficiency, 70) THEN <<EfficiencyAlert>> ELSE <<>>)
        \o (IF GreaterThan(basePower, 200) THEN <<PowerAlert>> ELSE <<>>)
        \o (IF random > 80 THEN <<SensorDriftAlert>> ELSE <<>>)

\* the history of a pass: what the pass before it read and left
PassRecord ==
    [now |-> passNow, random |-> passRandom, alerts |-> alerts,
     projections |-> projections, maintenance |-> maintenance]

\* a pass that adds its alerts to the list it finds
UpdateMetricsAppendingAlerts(now, random) ==
    /\ metrics' = CurrentMetrics(now)
    /\ projections' = CurrentProjections(now, crewSize)
    /\ maintenance' = maintenanceItems
    /\ alerts' = alerts \o CurrentAlerts(SystemEfficiency(now), BasePower(now),
                                         random)
    /\ dashPrev' = <<PassRecord>>
    /\ passNow' = now
    /\ passRandom' = random

\* a pass that adds its tasks to the schedule it finds
UpdateMetricsAppendingTasks(now, random) ==
    /\ metrics' = CurrentMetrics(now)
    /\ projections' = CurrentProjections(now, crewSize)
    /\ maintenance' = maintenance \o maintenanceItems
    /\ alerts' = CurrentAlerts(SystemEfficiency(now), BasePower(now), random)
    /\ dashPrev' = <<PassRecord>>
    /\ passNow' = now
    /\ passRandom' = random

\* a pass that grows the later years from the year-1 figures of the pass
\* before it
UpdateMetricsCompounding(now, random) ==
    /\ metrics' = CurrentMetrics(now)
    /\ projections' =
           [CurrentProjections(now, crewSize) EXCEPT
               !.year2 = projections.year1, !.year3 = projections.year2]
    /\ maintenance' = maintenanceItems
    /\ alerts' = CurrentAlerts(SystemEfficiency(now), BasePower(now), random)
    /\ dashPrev' = <<PassRecord>>
    /\ passNow' = now
    /\ passRandom' = random

\* updateMetrics() with Date.now() = now and Math.random() = random
UpdateMetrics(now, random) ==
    /\ metrics' = CurrentMetrics(now)
    /\ projections' = CurrentProjections(now, crewSize)
    /\ maintenance' = maintenanceItems
    /\ alerts' = CurrentAlerts(SystemEfficiency(now), BasePower(now), random)
    /\ dashPrev' = <<PassRecord>>
    /\ passNow' = now
    /\ passRandom' = random

\* a tick of setInterval(updateMetrics, 3000); the clock has advanced
IntervalFires ==
    /\ dashInterval
    /\ \E now \in NowSamples, random \in DriftDraws :
         /\ now > passNow
         /\ UpdateMetrics(now, random)
    /\ UNCHANGED dashInterval
    /\ UNCHANGED <<simVars, optVars, utilityVars>>

\* unmount: the effect's cleanup, clearInterval(interval)
DashboardUnmount ==
    /\ dashInterval
    /\ dashInterval' = FALSE
    /\ UNCHANGED <<metrics, projections, maintenance, alerts, passNow,
                   passRandom, dashPrev>>
    /\ UNCHANGED <<simVars, optVars, utilityVars>>

-----------------------------------------------------------------------------
(* PerformanceMonitor (src/utils/performance.js) *)

\* "Keep only last 100 measurements", "Keep only last 50 measurements"
RenderWindow == 100
MemoryWindow == 50

\* new PerformanceMonitor(): every metrics array is empty
MonitorConstructed ==
    /\ renderTimes = <<>>
    /\ memoryUsage = <<>>
    /\ voiceProcessingTimes = <<>>
    /\ monitorCalls = 0

\* the n-th entry pushed to an array is modelled by its ordinal n: the
\* ordinal of the next entry follows the newest one the array holds
NextEntry(array) == IF array = <<>> THEN 1 ELSE array[Len(array)] + 1

\* array.push(entry); if (array.length > window) array.shift()
PushWithin(array, entry, window) ==
    LET pushed == Append(array, entry)
    IN  IF Len(pushed) > window THEN Tail(pushed) ELSE pushed

\* one more entry is recorded
MonitorCall ==
    /\ monitorCalls < MaxMonitorCalls
    /\ monitorCalls' = monitorCalls + 1

\* measureRender(componentName, renderFunction)
MeasureRender ==
    /\ MonitorCall
    /\ renderTimes' = PushWithin(renderTimes, NextEntry(renderTimes),
                                 RenderWindow)
    /\ UNCHANGED <<memoryUsage, voiceProcessingTimes, performanceMemory>>
    /\ UNCHANGED <<componentVars, managerVars, debounceVars, maxWaitVars>>

\* trackMemoryUsage(), where performance.memory exists
TrackMemoryUsage ==
    /\ performanceMemory
    /\ MonitorCall
    /\ memoryUsage' = PushWithin(memoryUsage, NextEntry(memoryUsage),
                                 MemoryWindow)
    /\ UNCHANGED <<renderTimes, voiceProcessingTimes, performanceMemory>>
    /\ UNCHANGED <<componentVars, managerVars, debounceVars, maxWaitVars>>

\* performanceMonitor.metrics.voiceProcessingTimes.push(endTime - startTime)
RecordProcessingTime ==
    /\ MonitorCall
    /\ voiceProcessingTimes' =
           Append(voiceProcessingTimes, NextEntry(voiceProcessingTimes))
    /\ UNCHANGED <<renderTimes, memoryUsage, performanceMemory>>
    /\ UNCHANGED <<componentVars, managerVars, debounceVars, maxWaitVars>>

-----------------------------------------------------------------------------
(* MemoryManager (src/utils/performance.js) *)

\* the cleanup tasks callers register; FailingTask throws when it is invoked
FailingTask == "failing"
Tasks == {"release", FailingTask, "flush"}
\* ids handed out by setInterval and setTimeout
IntervalIds == {"i1", "i2"}
TimeoutIds == {"t1"}
\* elements listeners are put on, the event, and the handlers
Elements == {"panel", "button", "window"}
Events == {"click"}
Handlers == {"onFirst", "onSecond"}

\* `${element}`: every <div> spells "[object HTMLDivElement]"
ElementString(element) ==
    IF element = "window" THEN "[object Window]"
    ELSE "[object HTMLDivElement]"

\* `${element}-${event}`
ListenerKey(element, event) == <<ElementString(element), event>>

\* new MemoryManager(): empty registries; nothing was invoked, nothing runs
ManagerConstructed ==
    /\ cleanupTasks = <<>>
    /\ intervals = {}
    /\ timeouts = {}
    /\ eventListeners = {}
    /\ invocations = [task \in Tasks |-> 0]
    /\ liveIntervals = {}
    /\ liveTimeouts = {}
    /\ attached = {}
    /\ cleanups = 0

Members(sequence) == {sequence[i] : i \in 1..Len(sequence)}

\* addCleanupTask(task): Set.add keeps insertion order and ignores a
\* member it already has
AddCleanupTask(task) ==
    /\ cleanupTasks' = IF task \in Members(cleanupTasks) THEN cleanupTasks
                       ELSE Append(cleanupTasks, task)
    /\ UNCHANGED <<intervals, timeouts, eventListeners, invocations,
                   liveIntervals, liveTimeouts, attached, cleanups>>
    /\ UNCHANGED <<componentVars, monitorVars, debounceVars, maxWaitVars>>

\* const interval = setInterval(...); memoryManager.addInterval(interval)
AddInterval(intervalId) ==
    /\ intervalId \notin liveIntervals
    /\ liveIntervals' = liveIntervals \cup {intervalId}
    /\ intervals' = intervals \cup {intervalId}
    /\ UNCHANGED <<cleanupTasks, timeouts, eventListeners, invocations,
                   liveTimeouts, attached, cleanups>>
    /\ UNCHANGED <<componentVars, monitorVars, debounceVars, maxWaitVars>>

\* memoryManager.addTimeout(setTimeout(...))
AddTimeout(timeoutId) ==
    /\ timeoutId \notin liveTimeouts
    /\ timeoutId \notin timeouts
    /\ liveTimeouts' = liveTimeouts \cup {timeoutId}
    /\ timeouts' = timeouts \cup {timeoutId}
    /\ UNCHANGED <<cleanupTasks, intervals, eventListeners, invocations,
                   liveIntervals, attached, cleanups>>
    /\ UNCHANGED <<componentVars, monitorVars, debounceVars, maxWaitVars>>

\* a registered timeout expires; the registry keeps its id
TimeoutExpires(timeoutId) ==
    /\ timeoutId \in liveTimeouts
    /\ liveTimeouts' = liveTimeouts \ {timeoutId}
    /\ UNCHANGED <<cleanupTasks, intervals, timeouts, eventListeners,
                   invocations, liveIntervals, attached, cleanups>>
    /\ UNCHANGED <<componentVars, monitorVars, debounceVars, maxWaitVars>>

\* what element.addEventListener / removeEventListener act on
Listener(entry) == <<entry.element, entry.event, entry.handler>>

\* addEventListener(element, event, handler)
AddEventListener(element, event, handler) ==
    LET key == ListenerKey(element, event)
        old == {entry \in eventListeners : entry.key = key}
        new == [key |-> key, element |-> element, event |-> event,
                handler |-> handler]
    IN  /\ eventListeners' = (eventListeners \ old) \cup {new}
        /\ attached' = (attached \ {Listener(entry) : entry \in old})
                           \cup {Listener(new)}
        /\ UNCHANGED <<cleanupTasks, intervals, timeouts, invocations,
                       liveIntervals, liveTimeouts, cleanups>>
        /\ UNCHANGED <<componentVars, monitorVars, debounceVars, maxWaitVars>>

\* the tasks cleanupTasks.forEach invokes when an exception of a task ends
\* the iteration
InvokedUntilThrow(tasks) ==
    {tasks[i] : i \in {j \in 1..Len(tasks) :
                          \A k \in 1..(j - 1) : tasks[k] # FailingTask}}

\* cleanup() whose forEach has no try/catch: with a failing task registered,
\* the exception leaves cleanup() after that task
CleanupWithoutCatch ==
    /\ cleanups < MaxCleanups
    /\ cleanups' = cleanups + 1
    /\ invocations' =
           [task \in Tasks |->
               IF task \in InvokedUntilThrow(cleanupTasks)
               THEN invocations[task] + 1 ELSE invocations[task]]
    /\ IF FailingTask \in Members(cleanupTasks)
       THEN UNCHANGED <<cleanupTasks, intervals, timeouts, eventListeners,
                        liveIntervals, liveTimeouts, attached>>
       ELSE /\ liveIntervals' = liveIntervals \ intervals
            /\ liveTimeouts' = liveTimeouts \ timeouts
            /\ attached' = attached \
                               {Listener(entry) : entry \in eventListeners}
            /\ cleanupTasks' = <<>>
            /\ intervals' = {}
            /\ timeouts' = {}
            /\ eventListeners' = {}
    /\ UNCHANGED <<componentVars, monitorVars, debounceVars, maxWaitVars>>

\* cleanup(): every task is invoked inside try/catch, then every interval
\* and timeout is cleared and every listener removed, then the registries
\* are emptied
Cleanup ==
    /\ cleanups < MaxCleanups
    /\ cleanups' = cleanups + 1
    /\ invocations' =
           [task \in Tasks |->
               IF task \in Members(cleanupTasks)
               THEN invocations[task] + 1 ELSE invocations[task]]
    /\ liveIntervals' = liveIntervals \ intervals
    /\ liveTimeouts' = liveTimeouts \ timeouts
    /\ attached' = attached \ {Listener(entry) : entry \in eventListeners}
    /\ cleanupTasks' = <<>>
    /\ intervals' = {}
    /\ timeouts' = {}
    /\ eventListeners' = {}
    /\ UNCHANGED <<componentVars, monitorVars, debounceVars, maxWaitVars>>

-----------------------------------------------------------------------------
(* useDebounce (src/utils/performance.js) *)

\* the values the caller passes
DebounceValues == {"a", "b", "c"}

\* setTimeout(() => setDebouncedValue(value), delay): the callback keeps the
\* value of the render that started it
Handler(v) == [value |-> v, remaining |-> DebounceDelay]

\* an effect run that starts its timer without the clearTimeout of the
\* previous run's cleanup
RunEffectWithoutCleanup(pending, v) == Append(pending, Handler(v))

\* the effect on [value, delay]: the cleanup of the previous run clears its
\* timer, which is the newest one pending unless it has run (timers of one
\* delay run in the order they were started); the new run starts one
RunEffect(pending, v) ==
    Append(SubSeq(pending, 1, Len(pending) - 1), Handler(v))

\* the first render with the value v: useState(value), then the effect
DebounceMountedWith(v) ==
    /\ inputValue = v
    /\ debouncedValue = v
    /\ handlers = RunEffect(<<>>, v)
    /\ stableFor = 0
    /\ valueChanges = 0

DebounceMounted == DebounceMountedWith("a")

\* a render with another value
ValueChanges(v) ==
    /\ v # inputValue
    /\ valueChanges < MaxValueChanges
    /\ valueChanges' = valueChanges + 1
    /\ inputValue' = v
    /\ handlers' = RunEffect(handlers, v)
    /\ stableFor' = 0
    /\ UNCHANGED debouncedValue
    /\ UNCHANGED <<componentVars, monitorVars, managerVars, maxWaitVars>>

\* one tick passes; a timer that is due runs before the clock moves on
DebounceTick ==
    /\ \A i \in 1..Len(handlers) : handlers[i].remaining > 0
    /\ handlers' = [i \in 1..Len(handlers) |->
                       [handlers[i] EXCEPT !.remaining = @ - 1]]
    /\ stableFor' = Min(stableFor + 1, DebounceDelay)
    /\ UNCHANGED <<inputValue, debouncedValue, valueChanges>>
    /\ UNCHANGED <<componentVars, monitorVars, managerVars, maxWaitVars>>

\* a due timer runs: setDebouncedValue(value) of its render
HandlerFires ==
    \E i \in 1..Len(handlers) :
        /\ handlers[i].remaining = 0
        /\ debouncedValue' = handlers[i].value
        /\ handlers' = [j \in 1..(Len(handlers) - 1) |->
                           IF j < i THEN handlers[j] ELSE handlers[j + 1]]
        /\ UNCHANGED <<inputValue, stableFor, valueChanges>>
        /\ UNCHANGED <<componentVars, monitorVars, managerVars, maxWaitVars>>

-----------------------------------------------------------------------------
(* useOptimizedDebounce with { maxWait } (src/utils/performance.js) *)

\* a ref holding null
NoTimer == 0

\* setTimeout(updateValue, after): updateValue keeps the value of its render
OptHandler(id, v, after) == [id |-> id, value |-> v, remaining |-> after]

\* clearTimeout(ref.current) where ref.current is set
Cleared(pending, ref) == {h \in pending : h.id # ref}

\* ticks since the first change not yet published, after a step that leaves
\* the input current and the debounced value published
Outstanding(current, published, waiting) ==
    IF current = published THEN -1
    ELSE IF waiting = -1 THEN 0 ELSE waiting

\* the first render: useState(value), then the effect with leading false and
\* trailing true starts both timers
MaxWaitMountedWith(v) ==
    /\ optValue = v
    /\ optDebouncedValue = v
    /\ optHandlers = {OptHandler(1, v, OptDelay), OptHandler(2, v, MaxWait)}
    /\ timeoutRef = 1
    /\ maxTimeoutRef = 2
    /\ nextTimerId = 3
    /\ waitingFor = -1
    /\ optValueChanges = 0

MaxWaitMounted == MaxWaitMountedWith("a")

\* a render with another value: the cleanup of the previous effect run, then
\* the effect
OptValueChanges(v) ==
    LET cleaned == Cleared(Cleared(optHandlers, timeoutRef), maxTimeoutRef)
        trailing == OptHandler(nextTimerId, v, OptDelay)
        maximum == OptHandler(nextTimerId + 1, v, MaxWait)
    IN  /\ v # optValue
        /\ optValueChanges < MaxOptValueChanges
        /\ optValueChanges' = optValueChanges + 1
        /\ optValue' = v
        /\ timeoutRef' = trailing.id
        /\ IF maxTimeoutRef = NoTimer
           THEN /\ maxTimeoutRef' = maximum.id
                /\ optHandlers' = cleaned \cup {trailing, maximum}
                /\ nextTimerId' = nextTimerId + 2
           ELSE /\ UNCHANGED maxTimeoutRef
                /\ optHandlers' = cleaned \cup {trailing}
                /\ nextTimerId' = nextTimerId + 1
        /\ waitingFor' = Outstanding(v, optDebouncedValue, waitingFor)
        /\ UNCHANGED optDebouncedValue
        /\ UNCHANGED <<componentVars, monitorVars, managerVars, debounceVars>>

\* one tick passes; a timer that is due runs before the clock moves on
OptTick ==
    /\ \A h \in optHandlers : h.remaining > 0
    /\ optHandlers' = {[h EXCEPT !.remaining = @ - 1] : h \in optHandlers}
    /\ waitingFor' = IF waitingFor = -1 THEN -1
                     ELSE Min(waitingFor + 1, MaxWait + 1)
    /\ UNCHANGED <<optValue, optDebouncedValue, timeoutRef, maxTimeoutRef,
                   nextTimerId, optValueChanges>>
    /\ UNCHANGED <<componentVars, monitorVars, managerVars, debounceVars>>

\* a due timer runs updateValue
UpdateValue ==
    \E h \in optHandlers :
        /\ h.remaining = 0
        /\ optHandlers' = optHandlers \ {h}
        /\ optDebouncedValue' = h.value
        /\ timeoutRef' = NoTimer
        /\ maxTimeoutRef' = NoTimer
        /\ waitingFor' = Outstanding(optValue, h.value, waitingFor)
        /\ UNCHANGED <<optValue, nextTimerId, optValueChanges>>
        /\ UNCHANGED <<componentVars, monitorVars, managerVars, debounceVars>>

-----------------------------------------------------------------------------
(* Specifications *)

\* WasteStreamSimulator after mount with the composition c: the effect has
\* started the first run
SimMountedWith(c) ==
    /\ wasteComposition = c
    /\ simulation = InitialSimulation
    /\ isSimulating = TRUE
    /\ flowAnimation = TRUE
    /\ simTimers = <<c>>
    /\ flowTimers = 0
    /\ simInput = <<>>
    /\ simPrev = <<>>
    /\ edits = 0
    /\ lastEdit = <<>>

\* AIProcessOptimizer after mount with the parameters p: the effect has
\* started the 1 s timer
OptMountedWith(p) ==
    /\ parameters = p
    /\ optimization = InitialOptimization
    /\ isOptimizing = FALSE
    /\ autoTimer = <<Closure(FALSE, p)>>
    /\ optTimers = <<>>
    /\ optInput = <<>>
    /\ optDraws = <<>>
    /\ optPrev = <<>>
    /\ paramEdits = 0

\* SystemDashboard after mount at the instant now: the effect has run the
\* first pass of updateMetrics, with the draw random, and started the
\* interval
DashMountedWith(now, random) ==
    /\ metrics = CurrentMetrics(now)
    /\ projections = CurrentProjections(now, crewSize)
    /\ maintenance = maintenanceItems
    /\ alerts = CurrentAlerts(SystemEfficiency(now), BasePower(now), random)
    /\ dashInterval = TRUE
    /\ passNow = now
    /\ passRandom = random
    /\ dashPrev = <<>>

SimMounted == SimMountedWith(InitialComposition)
OptMounted == OptMountedWith(InitialParameters)
DashMounted == DashMountedWith(0, 50)

\* the three components mounted
ComponentsMounted == SimMounted /\ OptMounted /\ DashMounted

\* the utilities of performance.js as the module and the first render of
\* the hooks leave them
MonitorIdle == MonitorConstructed /\ performanceMemory = TRUE
UtilitiesIdle ==
    /\ MonitorIdle
    /\ ManagerConstructed
    /\ DebounceMounted
    /\ MaxWaitMounted

\* the simulator, operated from mount
InitSim == SimMounted /\ OptMounted /\ DashMounted /\ UtilitiesIdle
NextSim ==
    \/ \E type \in Categories, value \in InputStrings :
           HandleWasteChange(type, value)
    \/ ClickSimulate
    \/ SimulationTimerFires
    \/ FlowTimerFires
SpecSim == InitSim /\ [][NextSim]_vars

\* the optimizer, operated from mount
InitOpt == SimMounted /\ OptMounted /\ DashMounted /\ UtilitiesIdle
NextOpt ==
    \/ \E param \in ParameterNames :
         \E value \in ParameterInputs(param) :
           HandleParameterChange(param, value)
    \/ AutoTimerFires
    \/ ClickOptimize
    \/ OptimizationTimerFires
SpecOpt == InitOpt /\ [][NextOpt]_vars

\* The calculation of the simulator over a grid of compositions the operator
\* can enter through handleWasteChange: the component is taken as mounted
\* with each of them, its first run pending, and is only re-run.
CalcPercentages == {0, 15, 50, 100}
CalcCompositions == [Categories -> CalcPercentages] \cup {InitialComposition}
InitSimCalc ==
    /\ \E c \in CalcCompositions : SimMountedWith(c)
    /\ OptMounted
    /\ DashMounted
    /\ UtilitiesIdle
NextSimCalc ==
    \/ ClickSimulate
    \/ SimulationTimerFires
    \/ FlowTimerFires
SpecSimCalc == InitSimCalc /\ [][NextSimCalc]_vars

\* The simulator configured with a composition that carries a category the
\* tables of runSimulation have no entry for: the component is taken as
\* mounted with it, its first run pending, and is only re-run.
ConfigPercentages == {0, 50}
ConfigCompositions ==
    {[type \in Categories \cup {UnknownCategory} |->
         IF type = UnknownCategory THEN extra ELSE c[type]] :
       c \in [Categories -> ConfigPercentages] \cup {InitialComposition},
       extra \in {0, 10}}
InitSimConfig ==
    /\ \E c \in ConfigCompositions : SimMountedWith(c)
    /\ OptMounted
    /\ DashMounted
    /\ UtilitiesIdle
NextSimConfig ==
    \/ ClickSimulate
    \/ SimulationTimerFires
    \/ FlowTimerFires
SpecSimConfig == InitSimConfig /\ [][NextSimConfig]_vars

\* The calculation of the optimizer over a grid of parameters the operator
\* can enter through handleParameterChange: the component is taken as mounted
\* with each of them, its 1 s timer pending, and is only re-run.
CalcParameters ==
    [temperature : {0, 800, 1150, 1200, 1300, 1400},
     flowRate : {0, 85, 90, 100},
     catalystEfficiency : {0, 80, 85, 92, 95},
     energyInput : {0, 50, 150, 300},
     pressure : {10, 25}]
InitOptCalc ==
    /\ SimMounted
    /\ \E p \in CalcParameters : OptMountedWith(p)
    /\ DashMounted
    /\ UtilitiesIdle
NextOptCalc ==
    \/ AutoTimerFires
    \/ ClickOptimize
    \/ OptimizationTimerFires
SpecOptCalc == InitOptCalc /\ [][NextOptCalc]_vars

\* The optimizer operated from mount under every interleaving of its
\* handlers and timers, the changes made to the temperature and the pressure
\* only.
ChangedParameters == {"temperature", "pressure"}
InitOptFlight == SimMounted /\ OptMounted /\ DashMounted /\ UtilitiesIdle
NextOptFlight ==
    \/ \E param \in ChangedParameters :
         \E value \in ParameterInputs(param) :
           HandleParameterChange(param, value)
    \/ AutoTimerFires
    \/ ClickOptimize
    \/ OptimizationTimerFires
SpecOptFlight == InitOptFlight /\ [][NextOptFlight]_vars

\* The optimizer left alone after mount: no parameter is changed and the
\* button is not pressed, only the timers fire.
InitOptIdle ==
    /\ SimMounted
    /\ \E p \in CalcParameters : OptMountedWith(p)
    /\ DashMounted
    /\ UtilitiesIdle
NextOptIdle ==
    \/ AutoTimerFires
    \/ OptimizationTimerFires
SpecOptIdle == InitOptIdle /\ [][NextOptIdle]_vars

\* Both components side by side, re-run on unchanged inputs.
ZeroComposition == [type \in Categories |-> 0]
RerunCompositions == {InitialComposition, ZeroComposition}
RerunParameters ==
    {InitialParameters,
     [InitialParameters EXCEPT !.energyInput = 0],
     [InitialParameters EXCEPT !.temperature = 1400]}
InitRerun ==
    /\ \E c \in RerunCompositions : SimMountedWith(c)
    /\ \E p \in RerunParameters : OptMountedWith(p)
    /\ DashMounted
    /\ UtilitiesIdle
NextRerun ==
    \/ ClickSimulate
    \/ SimulationTimerFires
    \/ FlowTimerFires
    \/ AutoTimerFires
    \/ ClickOptimize
    \/ OptimizationTimerFires
SpecRerun == InitRerun /\ [][NextRerun]_vars

\* The dashboard from mount, at any of the sampled instants, ticking at later
\* ones.
InitDash ==
    /\ SimMounted
    /\ OptMounted
    /\ \E now \in NowSamples, random \in DriftDraws :
           DashMountedWith(now, random)
    /\ UtilitiesIdle
NextDash ==
    \/ IntervalFires
    \/ DashboardUnmount
SpecDash == InitDash /\ [][NextDash]_vars

\* The performance monitor from construction, in a browser with or without
\* performance.memory, recording renders, memory samples and processing
\* times in any order.
InitMonitor ==
    /\ ComponentsMounted
    /\ MonitorConstructed
    /\ performanceMemory \in BOOLEAN
    /\ ManagerConstructed
    /\ DebounceMounted
    /\ MaxWaitMounted
NextMonitor ==
    \/ MeasureRender
    \/ TrackMemoryUsage
    \/ RecordProcessingTime
SpecMonitor == InitMonitor /\ [][NextMonitor]_vars

\* The memory manager from construction: registrations, expiring timeouts
\* and cleanup() calls in any order.
InitManager == ComponentsMounted /\ UtilitiesIdle
NextManager ==
    \/ \E task \in Tasks : AddCleanupTask(task)
    \/ \E intervalId \in IntervalIds : AddInterval(intervalId)
    \/ \E timeoutId \in TimeoutIds : AddTimeout(timeoutId)
    \/ \E timeoutId \in TimeoutIds : TimeoutExpires(timeoutId)
    \/ \E element \in Elements, event \in Events, handler \in Handlers :
           AddEventListener(element, event, handler)
    \/ Cleanup
SpecManager == InitManager /\ [][NextManager]_vars

\* useDebounce from the first render, with any first value: the input
\* changes, the clock ticks, due timers run.
InitDebounce ==
    /\ ComponentsMounted
    /\ MonitorIdle
    /\ ManagerConstructed
    /\ \E v \in DebounceValues : DebounceMountedWith(v)
    /\ MaxWaitMounted
NextDebounce ==
    \/ \E v \in DebounceValues : ValueChanges(v)
    \/ DebounceTick
    \/ HandlerFires
SpecDebounce == InitDebounce /\ [][NextDebounce]_vars
\* the clock keeps ticking and the event loop runs every due timer
SpecDebounceFair ==
    SpecDebounce /\ WF_vars(DebounceTick) /\ WF_vars(HandlerFires)

\* useOptimizedDebounce with maxWait from the first render.
InitMaxWait ==
    /\ ComponentsMounted
    /\ MonitorIdle
    /\ ManagerConstructed
    /\ DebounceMounted
    /\ \E v \in DebounceValues : MaxWaitMountedWith(v)
NextMaxWait ==
    \/ \E v \in DebounceValues : OptValueChanges(v)
    \/ OptTick
    \/ UpdateValue
SpecMaxWait == InitMaxWait /\ [][NextMaxWait]_vars

-----------------------------------------------------------------------------
(* Claims *)

\* the fields of an optimization result other than the status line
Metrics(o) ==
    [methaneYield |-> o.methaneYield, powerConsumption |-> o.powerConsumption,
     efficiency |-> o.efficiency, prediction |-> o.prediction]

SimulationFields ==
    {"energyNeeds", "methaneOutput", "carbonProduction", "hydrogenOutput",
     "sustainabilityScore", "cycleEfficiency"}

\* C1: whenever the published optimization was computed from parameters with
\* temperature > 1300 and catalystEfficiency < 85, its prediction is the
\* high-temperature warning and not the low-catalyst alert.
C1_HighTempPrecedence ==
    optInput # <<>> =>
        LET p == optInput[1]
        IN  (p.temperature > 1300 /\ p.catalystEfficiency < 85)
                => /\ optimization.prediction = HighTempWarning
                   /\ optimization.prediction # LowCatalystAlert

C1_Witness ==
    /\ optInput # <<>>
    /\ optInput[1].temperature > 1300
    /\ optInput[1].catalystEfficiency < 85
    /\ optimization.status = "Optimization Complete"
    /\ optimization.prediction = HighTempWarning

\* C2 (as claimed): every published optimization carries exactly one of the
\* four predictions, LowCatalystAlert iff temperature <= 1300 and
\* catalystEfficiency < 85, Optimal iff temperature <= 1300 and
\* catalystEfficiency >= 85 and efficiency > 75, Suboptimal iff temperature <=
\* 1300 and catalystEfficiency >= 85 and efficiency <= 75.
C2_Claim_RuleChain ==
    optInput # <<>> =>
        LET p == optInput[1]
            low == p.temperature <= 1300
            cat == p.catalystEfficiency >= 85
            e == Efficiency(p)
        IN  /\ optimization.prediction \in Predictions
            /\ optimization.prediction = HighTempWarning <=> ~low
            /\ optimization.prediction = LowCatalystAlert <=> low /\ ~cat
            /\ optimization.prediction = Optimal
                   <=> low /\ cat /\ GreaterThan(e, 75)
            /\ optimization.prediction = Suboptimal
                   <=> low /\ cat /\ AtMost(e, 75)

\* C3 (as claimed): for temperature 1150, flowRate 90, catalystEfficiency 95,
\* energyInput 150 the published efficiency is above 75 and the prediction is
\* Optimal.
C3Parameters(p) ==
    /\ p.temperature = 1150
    /\ p.flowRate = 90
    /\ p.catalystEfficiency = 95
    /\ p.energyInput = 150

C3_Claim_Optimal ==
    (optInput # <<>> /\ C3Parameters(optInput[1])) =>
        /\ optimization.efficiency.kind = "finite"
        /\ optimization.efficiency.v > 750
        /\ optimization.prediction = Optimal

\* C3 (amended): for these parameters the published methaneYield is 69.65,
\* the powerConsumption 107.3 and the efficiency 64.9, which is not above 75,
\* and the prediction is Suboptimal.
C3_Amended_Suboptimal ==
    (optInput # <<>> /\ C3Parameters(optInput[1])) =>
        /\ optimization.methaneYield = Fixed(6965)
        /\ optimization.powerConsumption = Fixed(1073)
        /\ optimization.efficiency = Fixed(649)
        /\ optimization.prediction = Suboptimal

C3_Witness ==
    /\ optInput # <<>>
    /\ C3Parameters(optInput[1])
    /\ optimization.status = "Optimization Complete"
    /\ optimization.prediction = Suboptimal

\* C4: a simulation run on the same composition as the run before it
\* publishes the same result, and an optimization run on the same parameters
\* as the run before it publishes the same metrics and prediction, whatever
\* the Math.random draws of the two runs were.
C4_Determinism ==
    /\ (simPrev # <<>> /\ simPrev[1].input = simInput[1])
           => simPrev[1].result = simulation
    /\ (optPrev # <<>> /\ optPrev[1].input = optInput[1])
           => Metrics(optPrev[1].result) = Metrics(optimization)

C4_Witness ==
    /\ simPrev # <<>>
    /\ simPrev[1].input = simInput[1]
    /\ optPrev # <<>>
    /\ optPrev[1].input = optInput[1]
    /\ optPrev[1].draws # optDraws
    /\ optimization.status = "Optimization Complete"

\* C5 (as claimed): the result published for the all-zero composition has
\* energyNeeds 0 and cycleEfficiency 0.
C5_Claim_ZeroComposition ==
    simInput = <<ZeroComposition>> =>
        /\ simulation.energyNeeds = Fixed(0)
        /\ simulation.cycleEfficiency = Fixed(0)

\* clamp(x, 0, 100) of a number
Clamp0To100(x) ==
    CASE x.kind = "NaN" -> NaN
      [] x.kind = "-Infinity" -> Finite(0, 1)
      [] x.kind = "finite" /\ x.num < 0 -> Finite(0, 1)
      [] OTHER -> MathMin(100, x)

\* C6 (as claimed): every field of a result published for a composition with
\* all categories in [0,100] is a number >= 0, and sustainabilityScore is a
\* number in [0,100], the (rounded) clamp(cycleEfficiency * 1.2, 0, 100).
C6_Claim_ResultRanges ==
    (simInput # <<>> /\ \A type \in Categories : simInput[1][type] \in 0..100)
        => /\ \A f \in SimulationFields :
                  IsNumber(simulation[f]) /\ simulation[f].v >= 0
           /\ simulation.sustainabilityScore.v <= 100
           /\ simulation.sustainabilityScore =
                  ToFixed(Clamp0To100(Times(CycleEfficiency(simInput[1]), 6, 5)),
                          1)

\* C7: in every state the waste composition has exactly the five categories,
\* each an integer in [0,100], and after an entry that parseFloat does not
\* read as a number the category entered is 0.
C7_CompositionNormalized ==
    /\ DOMAIN wasteComposition = Categories
    /\ \A type \in Categories : wasteComposition[type] \in 0..100
    /\ lastEdit # <<>> =>
           (ParseFloat(lastEdit[1].value).kind = "NaN"
                => wasteComposition[lastEdit[1].type] = 0)

C7_Witness ==
    /\ lastEdit # <<>>
    /\ lastEdit[1].value = "abc"
    /\ wasteComposition[lastEdit[1].type] = 0
    /\ \E type \in Categories : wasteComposition[type] = 100

\* C8: whatever the total, the category entered last holds the (clamped)
\* value entered; the newest simulation run, pending or published, is the one
\* of the current composition; and a result published for a composition that
\* totals more than 100 is the computed result, all of its fields numbers.
C8_OverTotalNotRejected ==
    /\ lastEdit # <<>> =>
           wasteComposition[lastEdit[1].type]
               = ClampedPercentage(lastEdit[1].value)
    /\ IF simTimers # <<>>
       THEN simTimers[Len(simTimers)] = wasteComposition
       ELSE simInput = <<wasteComposition>>
    /\ (simInput # <<>> /\ SumFrom(simInput[1], 1) > 100)
           => /\ simulation = SimulationResult(simInput[1])
              /\ \A f \in SimulationFields : IsNumber(simulation[f])

C8_Witness ==
    /\ lastEdit # <<>>
    /\ totalPercentage > 100
    /\ ExceedsIndication
    /\ simInput = <<wasteComposition>>
    /\ simTimers = <<>>
    /\ \A f \in SimulationFields : IsNumber(simulation[f])
    /\ simulation.energyNeeds.v > 0

\* the decomposed mass of a composition, in 1/100 kg
DecomposedMass(c) ==
    c.polymers * decompositionRates.polymers
    + c.packaging * decompositionRates.packaging
    + c.structuralResidues * decompositionRates.structuralResidues
    + c.organics * decompositionRates.organics
    + c.metals * decompositionRates.metals

\* the energy demand of a composition, in 1/10 kWh
EnergyDemand(c) ==
    c.polymers * energyRequirements.polymers
    + c.packaging * energyRequirements.packaging
    + c.structuralResidues * energyRequirements.structuralResidues
    + c.organics * energyRequirements.organics
    + c.metals * energyRequirements.metals

\* C9: for the composition of every published result, the accumulated
\* energyNeeds is the sum of categoryMass * energyRequirement, the accumulated
\* methane, carbon and hydrogen are 0.40, 0.30 and 0.15 of the summed
\* decomposed mass, so carbon = 0.75 * methane and hydrogen = 0.375 * methane;
\* the published fields are these totals to one decimal.
C9_AccumulationRule ==
    simInput # <<>> =>
        LET c == simInput[1]
            t == Totals(c)
        IN  /\ t.totalEnergyNeeds = EnergyDemand(c)
            /\ t.totalMethaneOutput = 40 * DecomposedMass(c)
            /\ t.totalCarbonProduction = 30 * DecomposedMass(c)
            /\ t.totalHydrogenOutput = 15 * DecomposedMass(c)
            /\ 4 * t.totalCarbonProduction = 3 * t.totalMethaneOutput
            /\ 8 * t.totalHydrogenOutput = 3 * t.totalMethaneOutput
            /\ simulation.energyNeeds = Fixed(EnergyDemand(c))
            /\ simulation.methaneOutput
                   = ToFixed(Finite(40 * DecomposedMass(c), 10000), 10)
            /\ simulation.carbonProduction
                   = ToFixed(Finite(30 * DecomposedMass(c), 10000), 10)
            /\ simulation.hydrogenOutput
                   = ToFixed(Finite(15 * DecomposedMass(c), 10000), 10)

C9_Witness ==
    /\ simInput = <<InitialComposition>>
    /\ simulation.energyNeeds = Fixed(2280)
    /\ simulation.methaneOutput = Fixed(313)
    /\ simulation.carbonProduction = Fixed(235)
    /\ simulation.hydrogenOutput = Fixed(117)

\* C10 (as claimed): whenever the powerConsumption of the published
\* optimization is 0, its efficiency is 0 and its prediction is one of the
\* four.
C10_Claim_ZeroPower ==
    (optInput # <<>> /\ PowerConsumption(optInput[1]).num = 0) =>
        /\ optimization.efficiency = Fixed(0)
        /\ optimization.prediction \in Predictions

\* the domains the parameter fields document (min and max of each <input>);
\* pressure is held in tenths
InDocumentedDomain(p) ==
    /\ p.temperature \in 800..1500
    /\ p.flowRate \in 0..100
    /\ p.catalystEfficiency \in 0..100
    /\ p.energyInput \in 50..300

\* C11 (as claimed): whenever the published optimization was computed from
\* parameters inside their documented domains (temperature 800..1500,
\* flowRate 0..100, catalystEfficiency 0..100, energyInput 50..300), its
\* efficiency is a number within 0..100 and its methaneYield and
\* powerConsumption are numbers that are not negative.
C11_Claim_InDomainRanges ==
    (optInput # <<>> /\ InDocumentedDomain(optInput[1])) =>
        /\ optimization.efficiency.kind = "finite"
        /\ optimization.efficiency.v >= 0
        /\ optimization.efficiency.v <= 1000
        /\ optimization.methaneYield.kind = "finite"
        /\ optimization.methaneYield.v >= 0
        /\ optimization.powerConsumption.kind = "finite"
        /\ optimization.powerConsumption.v >= 0


\* the documented domain of pressure, 1.0..5.0, in tenths
PressureInDocumentedDomain(p) == p.pressure \in 10..50

\* C12 (as claimed): after any sequence of handleParameterChange calls with
\* arbitrary texts, every parameter lies in its documented domain
\* (temperature 800..1500, flowRate 0..100, catalystEfficiency 0..100,
\* energyInput 50..300, pressure 1.0..5.0), in the parameters held and in the
\* parameters every optimization run is started and computed with.
C12_Claim_ParametersInDomain ==
    /\ InDocumentedDomain(parameters)
    /\ PressureInDocumentedDomain(parameters)
    /\ \A i \in 1..Len(optTimers) :
           InDocumentedDomain(optTimers[i])
               /\ PressureInDocumentedDomain(optTimers[i])
    /\ optInput # <<>> =>
           InDocumentedDomain(optInput[1])
               /\ PressureInDocumentedDomain(optInput[1])


\* the alert a is in the list shown
AlertRaised(a) == \E i \in 1..Len(alerts) : alerts[i] = a

\* C13: after every pass the efficiency alert is in the list exactly when the
\* efficiency of that pass is below 70 and the power alert exactly when its
\* power is above 200, whatever the other rule and the sensor-drift draw
\* gave; for efficiency 65 and power 150 the rules give the efficiency alert
\* and not the power alert under every draw.
C13_AlertRulesIndependent ==
    /\ AlertRaised(EfficiencyAlert)
           <=> SystemEfficiency(passNow).num < 70 * SystemEfficiency(passNow).den
    /\ AlertRaised(PowerAlert)
           <=> BasePower(passNow).num > 200 * BasePower(passNow).den
    /\ \A random \in DriftDraws :
         LET list == CurrentAlerts(Finite(65, 1), Finite(150, 1), random)
         IN  /\ \E i \in 1..Len(list) : list[i] = EfficiencyAlert
             /\ \A i \in 1..Len(list) : list[i] # PowerAlert

\* a later pass with efficiency below 70 and power not above 200, the drift
\* alert drawn: the efficiency alert is shown without the power alert
C13_Witness ==
    /\ dashPrev # <<>>
    /\ LessThan(SystemEfficiency(passNow), 70)
    /\ ~GreaterThan(BasePower(passNow), 200)
    /\ passRandom > 80
    /\ alerts = <<EfficiencyAlert, SensorDriftAlert>>


\* C14: after every pass the alert list is exactly what that pass raised: at
\* most one alert per rule, in the order efficiency, power, sensor drift, and
\* nothing of the list the pass found.
C14_AlertsTransient ==
    LET e == SystemEfficiency(passNow).num < 70 * SystemEfficiency(passNow).den
        w == BasePower(passNow).num > 200 * BasePower(passNow).den
        d == passRandom > 80
    IN  /\ alerts = (IF e THEN <<EfficiencyAlert>> ELSE <<>>)
                        \o (IF w THEN <<PowerAlert>> ELSE <<>>)
                        \o (IF d THEN <<SensorDriftAlert>> ELSE <<>>)
        /\ Len(alerts) <= 3
        /\ \A i, j \in 1..Len(alerts) : alerts[i] = alerts[j] => i = j

\* a pass that found all three alerts raised none of its own and left an
\* empty list
C14_Witness ==
    /\ dashPrev # <<>>
    /\ dashPrev[1].alerts = <<EfficiencyAlert, PowerAlert, SensorDriftAlert>>
    /\ alerts = <<>>


\* the task names of a schedule, in order
TaskNames(schedule) == [i \in 1..Len(schedule) |-> schedule[i].task]

ScaledMetrics == {"waste", "methane", "power"}

\* the baseline of the latest pass behind a period-1 figure
Baseline(metric) ==
    CASE metric = "waste" -> BaseWaste(passNow)
      [] metric = "methane" -> BaseMethane(passNow)
      [] metric = "power" -> BasePower(passNow)

Growth(metric) ==
    CASE metric = "waste" -> [year2 |-> <<11, 10>>, year3 |-> <<6, 5>>]
      [] metric = "methane" -> [year2 |-> <<23, 20>>, year3 |-> <<5, 4>>]
      [] metric = "power" -> [year2 |-> <<9, 10>>, year3 |-> <<17, 20>>]

\* C18 (as claimed): after every pass the period-2 and period-3 waste are 1.1
\* and 1.2 times the period-1 waste, methane 1.15 and 1.25 times, power 0.9
\* and 0.85 times; waste and methane never decrease and power never
\* increases from one period to the next.
C18_Claim_GrowthMultipliers ==
    /\ \A metric \in ScaledMetrics : \A year \in {"year2", "year3"} :
         Growth(metric)[year][2] * projections[year][metric].v
             = Growth(metric)[year][1] * projections.year1[metric].v
    /\ \A metric \in {"waste", "methane"} :
         /\ projections.year1[metric].v <= projections.year2[metric].v
         /\ projections.year2[metric].v <= projections.year3[metric].v
    /\ projections.year1.power.v >= projections.year2.power.v
    /\ projections.year2.power.v >= projections.year3.power.v

\* C18 (amended): the multipliers apply to the period-1 value before it is
\* rounded: each period-2 and period-3 figure shown is that value times 1.1
\* and 1.2 (waste), 1.15 and 1.25 (methane), 0.9 and 0.85 (power), to one
\* decimal, so it lies within 0.12 of the multiple of the period-1 figure
\* shown; waste and methane shown never decrease and power shown never
\* increases from one period to the next.
C18_Amended_GrowthMultipliers ==
    /\ \A metric \in ScaledMetrics : \A year \in {"year2", "year3"} :
         LET a == Growth(metric)[year][1]
             b == Growth(metric)[year][2]
             first == Annualized(Baseline(metric), crewSize, 1, 1)
             gap == b * projections[year][metric].v
                        - a * projections.year1[metric].v
         IN  /\ projections[year][metric] = ToFixed(Times(first, a, b), 10)
             /\ projections.year1[metric] = ToFixed(first, 10)
             /\ 2 * gap <= a + b
             /\ 2 * gap >= -(a + b)
    /\ \A metric \in {"waste", "methane"} :
         /\ projections.year1[metric].v <= projections.year2[metric].v
         /\ projections.year2[metric].v <= projections.year3[metric].v
    /\ projections.year1.power.v >= projections.year2.power.v
    /\ projections.year2.power.v >= projections.year3.power.v

\* a later pass whose period-2 waste shown is not 1.1 times the period-1
\* waste shown, with waste growing and power falling over the periods
C18_Witness ==
    /\ dashPrev # <<>>
    /\ 10 * projections.year2.waste.v # 11 * projections.year1.waste.v
    /\ projections.year1.waste.v < projections.year2.waste.v
    /\ projections.year2.waste.v < projections.year3.waste.v
    /\ projections.year1.power.v > projections.year2.power.v
    /\ projections.year2.power.v > projections.year3.power.v


C20_RunsIsolated ==
    [][/\ Len(simTimers') > Len(simTimers)
           => simTimers' = Append(simTimers, wasteComposition')
       /\ Len(simTimers') < Len(simTimers)
           => /\ simulation' = SimulationResult(Head(simTimers))
              /\ simInput' = <<Head(simTimers)>>
              /\ simTimers' = Tail(simTimers)
              /\ wasteComposition' = wasteComposition]_vars

\* a run has completed while a run for another composition was pending (the
\* flag is down with a timer left): the result shown is the one of its own
\* composition, not of the composition held since
C20_Witness ==
    /\ simInput # <<>>
    /\ simTimers # <<>>
    /\ ~isSimulating
    /\ simInput[1] # Head(simTimers)
    /\ wasteComposition # simInput[1]
    /\ simulation = SimulationResult(simInput[1])
    /\ simulation # SimulationResult(wasteComposition)


\* C21 (as claimed): with the parameters unchanged and the button not
\* pressed, once the optimization of the current parameters has completed no
\* further optimization run is started.
C21_Claim_Quiescence ==
    [][(optInput # <<>> /\ optInput[1] = parameters)
           => Len(optTimers') <= Len(optTimers)]_vars

\* C22: at most one optimization run is in flight, and isOptimizing is true
\* exactly while its completion timer is pending; so no run is started while
\* isOptimizing is true.
C22_SingleRunInFlight ==
    /\ Len(optTimers) <= 1
    /\ isOptimizing <=> optTimers # <<>>

\* a parameter was changed while a run was in flight: the run goes on with
\* the parameters of its start, and the 1 s timer set by the change holds
\* isOptimizing = true and will start nothing
C22_Witness ==
    /\ paramEdits > 0
    /\ isOptimizing
    /\ Len(optTimers) = 1
    /\ optTimers[1] # parameters
    /\ autoTimer # <<>>
    /\ autoTimer[1].isOptimizing
    /\ autoTimer[1].parameters = parameters


\* C23: whenever no simulation timer is pending, the result shown is the one
\* computed from the composition the component holds, the latest one.
C23_LatestCompositionWins ==
    simTimers = <<>> =>
        /\ simInput = <<wasteComposition>>
        /\ simulation = SimulationResult(wasteComposition)

\* all timers have fired after a change of the composition: the result of
\* the older composition has been replaced by the one of the latest
C23_Witness ==
    /\ simTimers = <<>>
    /\ edits > 0
    /\ simPrev # <<>>
    /\ simPrev[1].input # wasteComposition
    /\ simPrev[1].result # simulation
    /\ simInput = <<wasteComposition>>
    /\ simulation = SimulationResult(wasteComposition)

\* C24 (as claimed): isSimulating is true whenever a simulation run is
\* pending.
C24_Claim_BusyWhilePending == simTimers # <<>> => isSimulating


\* p and q differ in pressure and in nothing else
DifferOnlyInPressure(p, q) ==
    /\ p.pressure # q.pressure
    /\ \A param \in ParameterNames \ {"pressure"} : p[param] = q[param]

\* C25: a run publishes the methaneYield, powerConsumption, efficiency and
\* prediction it would publish under any other pressure, and two consecutive
\* runs whose parameters differ only in pressure publish the same four
\* values.
C25_PressureWithoutInfluence ==
    optInput # <<>> =>
        /\ \A pressure \in {0, 10, 25, 30, 50} :
             Metrics(optimization)
                 = Metrics(OptimizationResult(
                       [optInput[1] EXCEPT !.pressure = pressure], optDraws))
        /\ (optPrev # <<>> /\ DifferOnlyInPressure(optPrev[1].input,
                                                   optInput[1]))
               => Metrics(optPrev[1].result) = Metrics(optimization)

\* a run at 2.5 bar followed by a run at another pressure on otherwise equal
\* parameters, with a yield and a power that are not zero
C25_Witness ==
    /\ optInput # <<>>
    /\ optPrev # <<>>
    /\ DifferOnlyInPressure(optPrev[1].input, optInput[1])
    /\ optPrev[1].input.pressure = 25
    /\ optimization.status = "Optimization Complete"
    /\ optimization.methaneYield.v > 0
    /\ optimization.powerConsumption.v > 0
    /\ Metrics(optPrev[1].result) = Metrics(optimization)


\* the entries kept are consecutive: none between the oldest and the newest
\* one kept has been dropped
MostRecentInOrder(array) ==
    \A i \in 1..(Len(array) - 1) : array[i + 1] = array[i] + 1

\* C26: after any sequence of measureRender, trackMemoryUsage and recorded
\* processing times, renderTimes holds at most 100 entries and memoryUsage
\* at most 50, both keep the most recent entries in insertion order, and no
\* metrics array, voiceProcessingTimes included, grows past the largest
\* window of the monitor.
C26_Claim_BoundedWindows ==
    /\ Len(renderTimes) <= RenderWindow
    /\ Len(memoryUsage) <= MemoryWindow
    /\ MostRecentInOrder(renderTimes)
    /\ MostRecentInOrder(memoryUsage)
    /\ Len(voiceProcessingTimes) <= Max(RenderWindow, MemoryWindow)


\* the listeners the registry holds
Registered == {Listener(entry) : entry \in eventListeners}

\* C27: a cleanup() call leaves the four registries empty, has invoked every
\* registered task exactly once and no other task (so a second call invokes
\* none again), leaves no registered interval or timeout running and no
\* registered listener attached; a task that throws changes none of this.
C27_CleanupReleasesAll ==
    [][cleanups' = cleanups + 1 =>
          /\ cleanupTasks' = <<>>
          /\ intervals' = {}
          /\ timeouts' = {}
          /\ eventListeners' = {}
          /\ \A task \in Tasks :
                 invocations'[task] =
                     IF task \in Members(cleanupTasks)
                     THEN invocations[task] + 1 ELSE invocations[task]
          /\ liveIntervals' \cap intervals = {}
          /\ liveTimeouts' \cap timeouts = {}
          /\ attached' \cap Registered = {}
          /\ liveIntervals' = {}
          /\ liveTimeouts' = {}
          /\ attached' = {}]_vars

\* two cleanup() calls have returned; the failing task and the two others
\* were registered for the first or the second and each ran once
C27_Witness ==
    /\ cleanups = 2
    /\ \A task \in Tasks : invocations[task] = 1
    /\ cleanupTasks = <<>>
    /\ intervals = {} /\ timeouts = {} /\ eventListeners = {}
    /\ liveIntervals = {} /\ liveTimeouts = {} /\ attached = {}


\* C28: at most one timer is pending; the debounced value changes only to
\* the current input, and only when that input has stayed unchanged for the
\* full delay; and if the input settles on a value for good, the debounced
\* value settles on it too.
C28_DebouncedFollowsSettledInput ==
    /\ [](Len(handlers) <= 1)
    /\ [][debouncedValue' # debouncedValue =>
              /\ debouncedValue' = inputValue
              /\ stableFor = DebounceDelay]_vars
    /\ \A v \in DebounceValues :
           <>[](inputValue = v) => <>[](debouncedValue = v)

\* the input changed once, stayed, and the debounced value has followed it
C28_Witness ==
    /\ valueChanges = 1
    /\ stableFor = DebounceDelay
    /\ handlers = <<>>
    /\ debouncedValue = inputValue


\* C29: with maxWait set, a change of the input is never left unpublished
\* for longer than maxWait, however fast further changes follow.
C29_Claim_MaxWaitBoundsDelay == waitingFor <= MaxWait

=============================================================================
